---- MODULE Spec2Model ----
(***************************************************************************)
(* The request/response client of src/websockets-and-rest.js.              *)
(*                                                                         *)
(* One client instance, driven by the JavaScript event loop: every action  *)
(* below is one macrotask (a caller's call, a socket event, a timer) run   *)
(* together with the promise reactions (microtasks) it triggers, because   *)
(* the event loop drains the microtask queue before it takes the next      *)
(* task.  The object held in this.socket is modelled as the platform's     *)
(* transport socket (readyState, send, close, onopen/onclose/onmessage),   *)
(* which is what the handlers of createSocket are written against.         *)
(***************************************************************************)
EXTENDS Integers, Sequences, FiniteSets, TLC

\* ---------------------------------------------------------------- constants
TimeoutMs == 5000          \* delay of the setTimeout in sendPayload

\* ------------------------------------------------------------------- bounds
MaxMs == 1                 \* milliseconds that may pass between two readings of the clock
MaxSockets == 3            \* sockets created over the run
MaxRequests == 2           \* sendRequest calls over the run
MaxSends == 2              \* sendRequest + sendMessage calls over the run
NumBodies == 2             \* distinct response bodies the peer may send
FairMaxSockets == 2
\* frames the engine allows on the call stack before it throws RangeError
MaxStack == 64        \* sockets created over a run of FairSpec

VARIABLES
    now,              \* the latest reading of the clock, in ms since construction
    sockets,          \* every socket created so far, in creation order
    socket,           \* this.socket: index into sockets
    waitingResponse,  \* this.waitingResponse: requestid -> request
    messageQueue,     \* this.messageQueue
    requests,         \* one record per sendRequest call: its promise and callbacks
    timers,           \* armed setTimeout callbacks, in firing order
    wire,             \* every socket.send that returned, in order
    nsent,            \* number of messages submitted so far
    discarded,        \* processMessage has logged and dropped a frame
    stack             \* the call stack of a construction under way

vars == <<now, sockets, socket, waitingResponse, messageQueue, requests,
          timers, wire, nsent, discarded, stack>>

\* --------------------------------------------------------------- data model
Bodies == 1..NumBodies

\* the requestids the peer has seen (the sent field of a request message),
\* and one it has not: the next millisecond
FrameIds == { requests[q].id : q \in DOMAIN requests } \cup {now + 1}

\* an inbound frame: msg.data of the message event.  "inherited" is a frame
\* whose requestid names a property every array has ("push", "constructor"):
\* the lookup gives an object without resolve, the call throws a TypeError
\* and the catch logs it
Frames ==
    [kind : {"reply"}, requestid : FrameIds, body : Bodies]
    \cup [kind : {"norequestid", "malformed", "inherited"}, requestid : {0}, body : {1}]

\* the milliseconds passed since the latest reading of the clock
Elapsed == 0..MaxMs

\* what a caller may pass as details
Details == {"plain", "unserializable"}

\* the own enumerable fields of a details object that serializes: its
\* application fields
Payload(details) == [op |-> 1]

\* the object literal { ...a, ...b }: the fields of b win
Spread(a, b) ==
    [k \in (DOMAIN a) \cup (DOMAIN b) |-> IF k \in DOMAIN b THEN b[k] ELSE a[k]]

NewSocket == [readyState |-> "CONNECTING"]

\* this.waitingResponse[requestid] = request
Register(table, requestid, r) ==
    [i \in (DOMAIN table) \cup {requestid} |->
        IF i = requestid THEN r ELSE table[i]]

\* a delete that removes nothing
DeleteNothing(table, requestid) == table

\* delete this.waitingResponse[requestid]
Delete(table, requestid) ==
    [i \in (DOMAIN table) \ {requestid} |-> table[i]]

\* the promise's resolve function: settles only a pending promise; the
\* reaction calls resolution(value)
Resolve(reqs, r, body) ==
    IF reqs[r].state = "pending"
    THEN [reqs EXCEPT ![r].state = "fulfilled",
                      ![r].value = body,
                      ![r].nSuccess = @ + 1]
    ELSE reqs

\* a reject that also runs the reaction of a promise already settled
RejectSettled(reqs, r, error) ==
    [reqs EXCEPT ![r].state = "rejected",
                 ![r].reason = error,
                 ![r].nFailure = @ + 1]

\* a reject whose rejection handler was never attached
RejectUnhandled(reqs, r, error) ==
    IF reqs[r].state = "pending"
    THEN [reqs EXCEPT ![r].state = "rejected", ![r].reason = error]
    ELSE reqs

\* the promise's reject function: settles only a pending promise; the
\* reaction calls rejection(error)
Reject(reqs, r, error) ==
    IF reqs[r].state = "pending"
    THEN [reqs EXCEPT ![r].state = "rejected",
                      ![r].reason = error,
                      ![r].nFailure = @ + 1]
    ELSE reqs

\* a drain that starts from the newest item
ForEachSendNewestFirst(queue, s, state) ==
    [i \in 1..Len(queue) |->
        [msg |-> queue[Len(queue) + 1 - i], sock |-> s, state |-> state,
         via |-> "flush"]]

\* messageQueue.forEach(item => this.socket.send(item)) on a socket whose
\* send returns: one wire entry per item, in queue order
ForEachSend(queue, s, state) ==
    [i \in 1..Len(queue) |->
        [msg |-> queue[i], sock |-> s, state |-> state, via |-> "flush"]]

\* a completion that leaves the table as it is
FinallyKeepsEntry(table, reqs, r, wasPending) == table

\* the finally block of sendPayload, run when the promise of r has settled
Finally(table, reqs, r, wasPending) ==
    IF wasPending THEN Delete(table, reqs[r].id) ELSE table

\* -------------------------------------------------------------------- Init
\* the state after new WebSocket(url): constructor, then createSocket
Init ==
    /\ now = 0
    /\ sockets = <<NewSocket>>
    /\ socket = 1
    /\ waitingResponse = [i \in {} |-> 0]
    /\ messageQueue = <<>>
    /\ requests = <<>>
    /\ timers = <<>>
    /\ wire = <<>>
    /\ nsent = 0
    /\ discarded = FALSE
    /\ stack = <<>>

\* ----------------------------------------------------------------- actions
\* createSocket: this.socket = new socket; the old one is left as it is
createSocket ==
    /\ Len(sockets) < MaxSockets
    /\ sockets' = Append(sockets, NewSocket)
    /\ socket' = Len(sockets) + 1

\* recreateSocket(message)
recreateSocket(message) ==
    /\ messageQueue' = Append(messageQueue, message)
    /\ createSocket

\* openSocket()
openSocket ==
    /\ createSocket
    /\ UNCHANGED <<now, waitingResponse, messageQueue, requests, timers, wire, nsent, discarded, stack>>

\* closeSocket(): this.socket.close()
closeSocket ==
    /\ sockets' = [sockets EXCEPT ![socket].readyState =
                      IF @ \in {"CONNECTING", "OPEN"} THEN "CLOSING" ELSE @]
    /\ UNCHANGED <<now, socket, waitingResponse, messageQueue, requests, timers,
                   wire, nsent, discarded, stack>>

\* an onopen handler that sends the queue and forgets to empty it
onopenKeepsQueue(s) ==
    /\ sockets[s].readyState = "CONNECTING"
    /\ sockets' = [sockets EXCEPT ![s].readyState = "OPEN"]
    /\ LET cur == IF s = socket THEN "OPEN" ELSE sockets[socket].readyState
       IN  IF messageQueue # <<>> /\ cur = "CONNECTING"
           THEN UNCHANGED wire
           ELSE wire' = wire \o ForEachSend(messageQueue, socket, cur)
    /\ UNCHANGED <<now, socket, waitingResponse, messageQueue, requests, timers,
                   nsent, discarded, stack>>

\* the onopen handler of socket s (s need not be this.socket)
onopen(s) ==
    /\ sockets[s].readyState = "CONNECTING"
    /\ sockets' = [sockets EXCEPT ![s].readyState = "OPEN"]
    /\ LET cur == IF s = socket THEN "OPEN" ELSE sockets[socket].readyState
       IN  IF messageQueue # <<>> /\ cur = "CONNECTING"
           THEN \* send throws InvalidStateError on the first item
                UNCHANGED <<messageQueue, wire>>
           ELSE /\ wire' = wire \o ForEachSend(messageQueue, socket, cur)
                /\ messageQueue' = <<>>
    /\ UNCHANGED <<now, socket, waitingResponse, requests, timers, nsent, discarded, stack>>

\* an onclose handler that reconnects by itself
oncloseReconnects(s) ==
    /\ sockets[s].readyState # "CLOSED"
    /\ Len(sockets) < MaxSockets
    /\ sockets' = Append([sockets EXCEPT ![s].readyState = "CLOSED"], NewSocket)
    /\ socket' = Len(sockets) + 1
    /\ UNCHANGED <<now, waitingResponse, messageQueue, requests, timers,
                   wire, nsent, discarded, stack>>

\* the transport closes socket s (peer close, error, or end of a close());
\* the onclose handler only logs
onclose(s) ==
    /\ sockets[s].readyState # "CLOSED"
    /\ sockets' = [sockets EXCEPT ![s].readyState = "CLOSED"]
    /\ UNCHANGED <<now, socket, waitingResponse, messageQueue, requests, timers,
                   wire, nsent, discarded, stack>>

\* sendPayload(details) as called by sendRequest, up to its await, and the
\* reactions when it throws before the await
sendPayload(details, dt) ==
    LET requestid == now + dt
        r == Len(requests) + 1
        request == [id |-> requestid, state |-> "pending", value |-> 0,
                    reason |-> "none", nSuccess |-> 0, nFailure |-> 0,
                    wasOpen |-> sockets[socket].readyState = "OPEN",
                    gotFrame |-> 0]
        registered == Register(waitingResponse, requestid, r)
        message == [serial |-> nsent + 1, req |-> r, newsock |-> 0,
                    json |-> Spread([sent |-> requestid], Payload(details))]
    IN
    /\ now' = requestid
    /\ nsent' = nsent + 1
    /\ IF details = "unserializable"
       THEN \* JSON.stringify throws; finally; rejection(error)
            /\ requests' = Reject(Append(requests, request), r, "SendError")
            /\ waitingResponse' = Delete(registered, requestid)
            /\ UNCHANGED <<sockets, socket, messageQueue, timers, wire>>
       ELSE /\ requests' = Append(requests, request)
            /\ waitingResponse' = registered
            /\ timers' = Append(timers, r)
            /\ IF sockets[socket].readyState = "OPEN"
               THEN /\ wire' = Append(wire, [msg |-> message, sock |-> socket,
                                             state |-> "OPEN", via |-> "direct"])
                    /\ UNCHANGED <<sockets, socket, messageQueue>>
               ELSE /\ recreateSocket([message EXCEPT !.newsock = Len(sockets) + 1])
                    /\ UNCHANGED wire

\* sendRequest(details, resolution, rejection)
sendRequest(details, dt) ==
    /\ Len(requests) < MaxRequests
    /\ nsent < MaxSends
    /\ sendPayload(details, dt)
    /\ UNCHANGED <<discarded, stack>>

\* sendMessage(details)
sendMessage ==
    /\ nsent < MaxSends
    /\ nsent' = nsent + 1
    /\ LET message == [serial |-> nsent + 1, req |-> 0, newsock |-> 0,
                       json |-> Payload("plain")]
       IN  IF sockets[socket].readyState = "OPEN"
           THEN /\ wire' = Append(wire, [msg |-> message, sock |-> socket,
                                         state |-> "OPEN", via |-> "direct"])
                /\ UNCHANGED <<sockets, socket, messageQueue>>
           ELSE /\ recreateSocket([message EXCEPT !.newsock = Len(sockets) + 1])
                /\ UNCHANGED wire
    /\ UNCHANGED <<now, waitingResponse, requests, timers, discarded, stack>>

\* a dispatcher that hands a frame it cannot match to some pending request
processMessageFallback(frame) ==
    IF \E q \in DOMAIN requests : requests[q].state = "pending"
    THEN LET r == CHOOSE q \in DOMAIN requests : requests[q].state = "pending"
         IN  /\ requests' = Resolve(requests, r, frame.body)
             /\ waitingResponse' = Delete(waitingResponse, requests[r].id)
             /\ UNCHANGED discarded
    ELSE UNCHANGED <<requests, waitingResponse, discarded>>

\* processMessage(msg) and the reactions of the promise it resolves
processMessage(frame) ==
    IF frame.kind = "reply" /\ frame.requestid \in DOMAIN waitingResponse
    THEN LET r == waitingResponse[frame.requestid]
             wasPending == requests[r].state = "pending"
             resolved == Resolve(requests, r, frame.body)
         IN  /\ requests' =
                    [q \in DOMAIN resolved |->
                        IF /\ requests[q].id = frame.requestid
                           /\ requests[q].state = "pending"
                           /\ requests[q].gotFrame = 0
                        THEN [resolved[q] EXCEPT !.gotFrame = frame.body]
                        ELSE resolved[q]]
             /\ waitingResponse' = Finally(waitingResponse, requests, r, wasPending)
             /\ UNCHANGED discarded
    ELSE \* console.warn / console.log: the frame is dropped
         /\ discarded' = TRUE
         /\ requests' =
                [q \in DOMAIN requests |->
                    IF /\ frame.kind = "reply"
                       /\ requests[q].id = frame.requestid
                       /\ requests[q].state = "pending"
                       /\ requests[q].gotFrame = 0
                    THEN [requests[q] EXCEPT !.gotFrame = frame.body]
                    ELSE requests[q]]
         /\ UNCHANGED waitingResponse

\* the onmessage handler of socket s (s need not be this.socket)
onmessage(s, frame) ==
    /\ sockets[s].readyState = "OPEN"
    /\ processMessage(frame)
    /\ UNCHANGED <<now, sockets, socket, messageQueue, timers, wire, nsent, stack>>

\* the setTimeout callback of sendPayload, and the reactions of reject; the
\* callback runs no earlier than TimeoutMs after it was armed
timeout ==
    /\ timers # <<>>
    /\ LET r == Head(timers)
           wasPending == requests[r].state = "pending"
           deadline == requests[r].id + TimeoutMs
       IN  /\ now' = IF now < deadline THEN deadline ELSE now
           /\ requests' = Reject(requests, r, "Timeout")
           /\ waitingResponse' = Finally(waitingResponse, requests, r, wasPending)
    /\ timers' = Tail(timers)
    /\ UNCHANGED <<sockets, socket, messageQueue, wire, nsent, discarded, stack>>

Next ==
    \/ openSocket
    \/ closeSocket
    \/ \E d \in Details, dt \in Elapsed : sendRequest(d, dt)
    \/ sendMessage
    \/ \E s \in DOMAIN sockets : onopen(s)
    \/ \E s \in DOMAIN sockets : onclose(s)
    \/ \E s \in DOMAIN sockets, f \in Frames : onmessage(s, f)
    \/ timeout

Spec == Init /\ [][Next]_vars

\* the same steps, with fewer sockets
FairNext ==
    \/ openSocket /\ Len(sockets') <= FairMaxSockets
    \/ closeSocket
    \/ \E d \in Details, dt \in Elapsed :
          sendRequest(d, dt) /\ Len(sockets') <= FairMaxSockets
    \/ sendMessage /\ Len(sockets') <= FairMaxSockets
    \/ \E s \in DOMAIN sockets : onopen(s)
    \/ \E s \in DOMAIN sockets : onclose(s)
    \/ \E s \in DOMAIN sockets, f \in Frames : onmessage(s, f)
    \/ timeout

\* a timer that is armed is run by the platform
FairSpec == Init /\ [][FairNext]_vars /\ WF_vars(timeout)

\* ------------------------------------------------------------- properties
Pending(r) == requests[r].state = "pending"

\* the timer armed for request r is still to run
Armed(r) == \E i \in DOMAIN timers : timers[i] = r

\* the timer of request r has run
TimerRan(r) == requests[r].reason # "SendError" /\ ~Armed(r)

\* the table entry registered for request r is present
Registered(r) ==
    /\ r \in DOMAIN requests
    /\ requests[r].id \in DOMAIN waitingResponse
    /\ waitingResponse[requests[r].id] = r

\* the sends made by the onopen handler, in order
FlushLog == SelectSeq(wire, LAMBDA w : w.via = "flush")

LiveSockets == { s \in DOMAIN sockets : sockets[s].readyState \in {"CONNECTING", "OPEN"} }

\* C1: for every sendRequest call, resolution and rejection are invoked at
\* most once in total, whatever the order of frames, timers and socket events.
C1_AtMostOneCallback ==
    \A r \in DOMAIN requests : requests[r].nSuccess + requests[r].nFailure <= 1

\* a request was resolved by a frame and its timer ran afterwards
C1_Witness ==
    \E r \in DOMAIN requests :
        /\ requests[r].state = "fulfilled"
        /\ TimerRan(r)
        /\ requests[r].nSuccess = 1

\* C2: no two requests that are both pending share a requestid (so a
\* registration never overwrites the entry of a pending request).
C2_DistinctIds ==
    \A p, q \in DOMAIN requests :
        (p # q /\ Pending(p) /\ Pending(q)) => requests[p].id # requests[q].id

\* C3: a request submitted while the socket is OPEN, for which a frame with
\* its requestid is dispatched while it is pending, has resolution invoked
\* exactly once with that frame's body, and rejection never.
C3_ResponseResolves ==
    \A r \in DOMAIN requests :
        (requests[r].wasOpen /\ requests[r].gotFrame # 0)
            => /\ requests[r].nSuccess = 1
               /\ requests[r].value = requests[r].gotFrame
               /\ requests[r].nFailure = 0

\* C4: when the timer of a request runs and no frame with its requestid was
\* dispatched before, rejection is invoked once with 'Timeout', resolution is
\* not, and the table has no entry for its requestid when the step ends.
C4_TimeoutFails ==
    [][\A r \in DOMAIN requests :
          (/\ timers # <<>>
           /\ Head(timers) = r
           /\ timers' = Tail(timers)
           /\ requests[r].gotFrame = 0)
          => /\ requests'[r].nFailure = 1
             /\ requests'[r].reason = "Timeout"
             /\ requests'[r].nSuccess = 0
             /\ requests'[r].id \notin DOMAIN waitingResponse']_vars

\* a request that got no frame was rejected with 'Timeout' and has no entry
C4_Witness ==
    \E r \in DOMAIN requests :
        /\ requests[r].gotFrame = 0
        /\ requests[r].reason = "Timeout"
        /\ requests[r].nFailure = 1
        /\ requests[r].id \notin DOMAIN waitingResponse

\* C5: the messages the onopen handler hands to the transport leave in the
\* order they were enqueued, and each of them at most once over the run.
C5_QueueOrder ==
    \A i, j \in DOMAIN FlushLog :
        i < j => FlushLog[i].msg.serial < FlushLog[j].msg.serial

\* two queued messages have been handed to the transport
C5_Witness ==
    /\ Len(FlushLog) >= 2
    /\ messageQueue = <<>>

\* C6: at most one socket of the client is CONNECTING or OPEN.
C6_OneLiveSocket == Cardinality(LiveSockets) <= 1

\* C7: every send made by the onopen handler is made on a socket that is
\* OPEN, so no message leaves the queue without such a send.
C7_FlushOnOpen ==
    \A i \in DOMAIN wire : wire[i].via = "flush" => wire[i].state = "OPEN"

\* C8: when the socket created by a send that found the connection not OPEN
\* opens, the message queued by that send is transmitted on it.
C8_SendRecovers ==
    [][\A s \in DOMAIN sockets :
          (sockets[s].readyState = "CONNECTING" /\ sockets'[s].readyState = "OPEN")
          => \A i \in DOMAIN messageQueue :
                messageQueue[i].newsock = s
                => \E k \in DOMAIN wire' :
                      /\ wire'[k].msg = messageQueue[i]
                      /\ wire'[k].sock = s
                      /\ wire'[k].state = "OPEN"]_vars

\* C9: under fairness of the timers, every entry registered in the table
\* is eventually removed.
C9_EntriesRemoved ==
    \A r \in 1..MaxRequests : Registered(r) ~> ~Registered(r)

\* an entry was registered and removed by the timer while no socket was live
C9_Witness ==
    \E r \in DOMAIN requests :
        /\ requests[r].reason = "Timeout"
        /\ ~Registered(r)
        /\ LiveSockets = {}

\* C10: an event of a socket that is no longer this.socket changes neither
\* the table nor the queue, settles no request and sends nothing.
C10_StaleEventsInert ==
    [][\A s \in DOMAIN sockets :
          (/\ s # socket
           /\ \/ onopen(s)
              \/ onclose(s)
              \/ \E f \in Frames : onmessage(s, f))
          => UNCHANGED <<waitingResponse, messageQueue, requests, wire>>]_vars

\* every message recorded as sent or queued
Handed == { wire[i].msg : i \in DOMAIN wire } \cup { messageQueue[i] : i \in DOMAIN messageQueue }

\* C11: every request message handed to the transport or to the queue has a
\* requestid field equal to the id its request is registered under, and a
\* sent field equal to the submission timestamp.
C11_EnvelopeHasRequestid ==
    \A m \in Handed :
        m.req # 0
        => /\ "requestid" \in DOMAIN m.json
           /\ m.json.requestid = requests[m.req].id
           /\ m.json.sent = requests[m.req].id

\* the frame has no entry to go to
Unsolicited(f) == f.kind # "reply" \/ f.requestid \notin DOMAIN waitingResponse

\* C12: a frame that does not parse, has no requestid, or has a requestid
\* without an entry in the table invokes no callback and leaves the table
\* and the queue unchanged.
C12_UnsolicitedIgnored ==
    [][\/ /\ UNCHANGED <<waitingResponse, messageQueue, wire>>
          /\ Len(requests') = Len(requests)
          /\ \A q \in DOMAIN requests :
                /\ requests'[q].state = requests[q].state
                /\ requests'[q].nSuccess = requests[q].nSuccess
                /\ requests'[q].nFailure = requests[q].nFailure
       \/ ~ \E s \in DOMAIN sockets : \E f \in Frames :
                onmessage(s, f) /\ Unsolicited(f)]_vars

\* a frame was dropped while a request was waiting, and it still waits
C12_Witness ==
    /\ discarded
    /\ \E q \in DOMAIN requests : Pending(q) /\ Registered(q)

\* C13: when the close started by closeSocket() completes and nothing was
\* sent or opened since, the client has no CONNECTING or OPEN socket (so no
\* frame can be dispatched any more).
C13_CloseDisconnects ==
    [][(/\ sockets[socket].readyState = "CLOSING"
        /\ socket' = socket
        /\ sockets'[socket].readyState = "CLOSED")
       => LiveSockets' = {}]_vars

HasMessage(r) == \E m \in Handed : m.req = r

\* C15: a sendRequest whose serialization threw has rejection invoked once
\* with that error, resolution never, no entry in the table and no timer.
C15_SendFailureRejects ==
    \A r \in DOMAIN requests :
        ~HasMessage(r)
        => /\ requests[r].state = "rejected"
           /\ requests[r].reason = "SendError"
           /\ requests[r].nFailure = 1
           /\ requests[r].nSuccess = 0
           /\ ~Armed(r)
           /\ ~Registered(r)

\* a call threw, and afterwards another request went out and timed out
C15_Witness ==
    /\ Len(requests) = 2
    /\ ~HasMessage(1)
    /\ requests[1].nFailure = 1
    /\ requests[2].reason = "Timeout"
    /\ timers = <<>>

\* C16: every message in the queue comes from sendPayload and its request
\* still has its entry in the table.
C16_QueuedHaveRequest ==
    \A i \in DOMAIN messageQueue :
        /\ messageQueue[i].req # 0
        /\ Registered(messageQueue[i].req)

\* C17: whenever this.socket is OPEN the queue is empty.
C17_OpenMeansEmptyQueue ==
    sockets[socket].readyState = "OPEN" => messageQueue = <<>>

\* a queue was drained and a later message went out directly on the OPEN socket
C17_Witness ==
    /\ sockets[socket].readyState = "OPEN"
    /\ \E i, j \in DOMAIN wire :
          i < j /\ wire[i].via = "flush" /\ wire[j].via = "direct"

\* C18: a step in which no request is submitted leaves the entry of every
\* request that is pending after it in the table: the cleanup of a completed
\* request removes its own entry only.
C18_CleanupOwnEntryOnly ==
    [][\A q \in DOMAIN requests :
          (/\ Len(requests') = Len(requests)
           /\ Registered(q)
           /\ requests'[q].state = "pending")
          => Registered(q)']_vars


\* ---------------------------------------------------------------------
\* Construction as the file is written.  Inside the body of
\* `class WebSocket` the name WebSocket is the class itself, so line 75
\* constructs another client, not a platform socket.

\* the state before `new WebSocket(url)`: no client and no socket exist
CtorInit ==
    /\ now = 0
    /\ sockets = <<>>
    /\ socket = 0
    /\ waitingResponse = [i \in {} |-> 0]
    /\ messageQueue = <<>>
    /\ requests = <<>>
    /\ timers = <<>>
    /\ wire = <<>>
    /\ nsent = 0
    /\ discarded = FALSE
    /\ stack = <<>>

Thrown == stack # <<>> /\ stack[Len(stack)] = "RangeError"

\* the caller evaluates `new WebSocket(url)`
newWebSocket ==
    /\ stack = <<>>
    /\ stack' = <<"constructor">>
    /\ UNCHANGED <<now, sockets, socket, waitingResponse, messageQueue,
                   requests, timers, wire, nsent, discarded>>

\* the constructor body up to its call of this.createSocket()
constructor ==
    /\ stack # <<>>
    /\ stack[Len(stack)] = "constructor"
    /\ waitingResponse' = [i \in {} |-> 0]
    /\ messageQueue' = <<>>
    /\ stack' = IF Len(stack) < MaxStack
                THEN Append(stack, "createSocket")
                ELSE Append(stack, "RangeError")
    /\ UNCHANGED <<now, sockets, socket, requests, timers, wire, nsent,
                   discarded>>

\* createSocket evaluating `new WebSocket(this.url)`: a nested constructor call
createSocketNew ==
    /\ stack # <<>>
    /\ stack[Len(stack)] = "createSocket"
    /\ stack' = IF Len(stack) < MaxStack
                THEN Append(stack, "constructor")
                ELSE Append(stack, "RangeError")
    /\ UNCHANGED <<now, sockets, socket, waitingResponse, messageQueue,
                   requests, timers, wire, nsent, discarded>>

\* no frame catches: the exception leaves the frame below it
unwind ==
    /\ Thrown
    /\ Len(stack) > 1
    /\ stack' = Append(SubSeq(stack, 1, Len(stack) - 2), "RangeError")
    /\ UNCHANGED <<now, sockets, socket, waitingResponse, messageQueue,
                   requests, timers, wire, nsent, discarded>>

CtorNext ==
    \/ newWebSocket
    \/ constructor
    \/ createSocketNew
    \/ unwind

CtorSpec == CtorInit /\ [][CtorNext]_vars

\* C19: a construction runs one constructor call, which creates a transport
\* socket and not another client, and no exception reaches the caller.
C19_ConstructionTerminates ==
    /\ Cardinality({i \in DOMAIN stack : stack[i] = "constructor"}) <= 1
    /\ ~Thrown

====
